---- MODULE Spec2Model ----
(***************************************************************************)
(* Model of the bind subsystem of OCILIB (src/bind.c): BindCreate with its *)
(* helpers BindCheckAvailability, BindAllocateBuffers, BindAllocData,      *)
(* BindPerformBinding and BindAddToStatement, BindFree, and the accessors  *)
(* of the null indicators, data sizes, charset form and direction of a     *)
(* descriptor.                                                             *)
(*                                                                         *)
(* One statement is modelled.  Its registry (ubinds, rbinds, map) and the  *)
(* descriptors it references are the state; every call of BindCreate is    *)
(* one action that runs the whole function on a call context `c` (the      *)
(* local variables of BindCreate plus the fields of the statement it       *)
(* writes).  Memory is explicit: pointers are records, every allocation    *)
(* made for a descriptor is a named block, and a release of a pointer is   *)
(* classified as regular, double, or applied to a caller pointer.          *)
(***************************************************************************)
EXTENDS Integers, Sequences, FiniteSets, TLC

(***************************************************************************)
(* Bounds of the model                                                     *)
(***************************************************************************)
\* scaled value of OCI_BIND_MAX, the maximum number of binds of one kind
OCI_BIND_MAX == 2
\* scaled value of OCI_BIND_ARRAY_GROWTH_FACTOR
OCI_BIND_ARRAY_GROWTH_FACTOR == 1
\* largest element count a caller passes as nbelem / configures as nb_iters
MaxElem == 2
\* largest number of allocation or wire-call failures injected into one call
MaxFaults == 1
\* largest data size a caller passes to BindSetDataSizeAtPos
MaxDataSize == 4

(***************************************************************************)
(* Input universe                                                          *)
(***************************************************************************)
\* placeholder names; Position is what ostrtol(&name[1]) yields for them
Names == {":1", ":2", ":3"}

Position(name) ==
    CASE name = ":1" -> 1
      [] name = ":2" -> 2
      [] name = ":3" -> 3
      [] OTHER       -> 0

\* data pointers a caller can pass
CallerPtrs == {"u1", "u2"}

\* blocks the subsystem allocates for input / buffer.data of one descriptor
HeapSeq == <<"h1", "h2", "h3", "h4">>
HeapIds == {HeapSeq[i] : i \in 1..Len(HeapSeq)}

\* element sizes passed by the caller
Sizes == {2, 4}

\* (type, code, subtype) triples as the public bind functions pass them
Kind(t, c, s) == [type |-> t, code |-> c, subtype |-> s]

NumInt    == Kind("OCI_CDT_NUMERIC",  "SQLT_INT", "OCI_NUM_INT")
NumBigInt == Kind("OCI_CDT_NUMERIC",  "SQLT_VNU", "OCI_NUM_BIGINT")
NumNumber == Kind("OCI_CDT_NUMERIC",  "SQLT_VNU", "OCI_NUM_NUMBER")
Text      == Kind("OCI_CDT_TEXT",     "SQLT_STR", "")
Raw       == Kind("OCI_CDT_RAW",      "SQLT_BIN", "")
Date      == Kind("OCI_CDT_DATETIME", "SQLT_ODT", "")
Object    == Kind("OCI_CDT_OBJECT",   "SQLT_NTY", "")
NClob     == Kind("OCI_CDT_LOB",      "SQLT_CLOB", "OCI_NCLOB")
Long      == Kind("OCI_CDT_LONG",     "SQLT_LNG", "OCI_CLONG")

Kinds == {NumInt, NumBigInt, NumNumber, Text, Raw, Date, Object, NClob, Long}

\* places of BindCreate where an allocation or a wire call can fail
FaultPoints ==
    {"ubinds", "rbinds", "map", "bnd", "inds", "obj_inds", "plrcds", "data",
     "lens", "value", "value2", "bind", "bindobject", "binddynamic", "attr"}

(***************************************************************************)
(* Pointers                                                                *)
(***************************************************************************)
Ptr(b, p) == [b |-> b, p |-> p]
NULL      == Ptr("null", "")

IsCaller(ptr) == ptr.b \in CallerPtrs
IsHeap(ptr)   == ptr.b \in HeapIds


(***************************************************************************)
(* State                                                                   *)
(***************************************************************************)
VARIABLES
    cfg,               \* statement / library settings fixed while binds exist
    bind_reuse,        \* stmt->bind_reuse
    bind_alloc_mode,   \* stmt->bind_alloc_mode
    ubinds,            \* stmt->ubinds[0 .. nb_ubinds-1]
    rbinds,            \* stmt->rbinds[0 .. nb_rbinds-1]
    allocated_ubinds,  \* stmt->allocated_ubinds (0: array not allocated)
    allocated_rbinds,  \* stmt->allocated_rbinds
    map                \* stmt->map: [alloc, entries], entries[name] the
                       \* values added under name, oldest first

vars ==
    <<cfg, bind_reuse, bind_alloc_mode, ubinds, rbinds, allocated_ubinds,
      allocated_rbinds, map>>

nb_ubinds == Len(ubinds)
nb_rbinds == Len(rbinds)

Min(a, b) == IF a < b THEN a ELSE b

\* the element of a one-element set: {f(x) : x \in {e}} applies f to the
\* value of e
Only(S) == CHOOSE x \in S : TRUE

Zeros(n) == [i \in 1..n |-> 0]

\* sizeof(otext) and sizeof(dbtext): with wide-char conversion the host
\* character is 4 bytes and the wire character 2, otherwise both are 1
SizeofOtext  == IF cfg.wide THEN 4 ELSE 1
SizeofDbtext == IF cfg.wide THEN 2 ELSE 1

NoHandle == [bound |-> FALSE, by |-> "", index |-> 0, name |-> "",
             data |-> NULL, exec_mode |-> "", nbelem |-> 0, csfrm |-> ""]

\* a descriptor as OCI_MemAlloc(..., zero = TRUE) returns it
ZeroBind ==
    [name |-> "", type |-> "", code |-> "", subtype |-> "", size |-> 0,
     input |-> NULL, data |-> NULL, alloc |-> FALSE, alloc_mode |-> "",
     is_array |-> FALSE, count |-> 0, nbelem |-> 0,
     inds |-> <<>>, obj_inds |-> 0, lens |-> <<>>, plrcds |-> 0,
     csfrm |-> "", direction |-> "", handle |-> NoHandle, maxsize |-> 0,
     live |-> {}, lost |-> FALSE]

\* events of memory releases: caller pointers released, double releases,
\* writes past the end of an array
NoEvents == [fc |-> {}, df |-> FALSE, oob |-> FALSE]

(***************************************************************************)
(* Memory primitives (memory.h / macro.h)                                  *)
(***************************************************************************)
\* the first block id that the descriptor neither owns nor still points to
Fresh(bnd) ==
    LET used == bnd.live \cup {bnd.input.b, bnd.data.b}
        free == {i \in 1..Len(HeapSeq) : HeapSeq[i] \notin used}
    IN  HeapSeq[CHOOSE i \in free : \A j \in free : i <= j]

\* OCI_MemFree / FreeObjectFromType / ArrayFreeFromHandles on ptr, for a
\* record x with fields bnd and ev: releases the block ptr refers to
Release(x, ptr) ==
    IF ptr = NULL THEN x
    ELSE IF IsCaller(ptr) THEN [x EXCEPT !.ev.fc = @ \cup {ptr.b}]
    ELSE IF ptr.b \in x.bnd.live THEN [x EXCEPT !.bnd.live = @ \ {ptr.b}]
    ELSE [x EXCEPT !.ev.df = TRUE]

\* an allocation or wire call at a site of the call c: it fails when the
\* site is among the injected faults, and OCI_STATUS becomes its outcome
Attempt(c, site, err) ==
    [c EXCEPT !.st     = site \notin c.faults,
              !.errs   = IF site \in c.faults THEN @ \cup {err} ELSE @,
              !.failed = @ \/ site \in c.faults,
              !.late   = IF c.st THEN @ ELSE @ \cup {site}]

\* OCI_MemAlloc at a site inside BindAllocData, which does not write
\* OCI_STATUS itself: the attempt is recorded, the caller reads Succeeds
Succeeds(c, site) == site \notin c.faults

Noted(c, site) ==
    [c EXCEPT !.errs = IF site \in c.faults THEN @ \cup {"Memory"} ELSE @,
              !.late = IF c.st THEN @ ELSE @ \cup {site}]

\* an exception raised by a check: OCI_STATUS = FALSE
Raise(c, err) ==
    [c EXCEPT !.st = FALSE, !.errs = @ \cup {err}, !.failed = TRUE]

\* blocks of the descriptor that no pointer of it references any more can
\* never be released: they are accounted as lost
Account(bnd) ==
    LET refd == {bnd.input.b, bnd.data.b}
    IN  IF bnd.live \subseteq refd THEN bnd
        ELSE [bnd EXCEPT !.live = @ \cap refd, !.lost = TRUE]


(***************************************************************************)
(* BindAllocData                                                           *)
(***************************************************************************)
\* the types BindAllocData has a case for
MaterializedTypes ==
    {"OCI_CDT_NUMERIC", "OCI_CDT_DATETIME", "OCI_CDT_TEXT", "OCI_CDT_LOB",
     "OCI_CDT_FILE", "OCI_CDT_TIMESTAMP", "OCI_CDT_INTERVAL", "OCI_CDT_RAW",
     "OCI_CDT_OBJECT", "OCI_CDT_COLLECTION", "OCI_CDT_REF"}

\* the array branch: one OCI_Array, exposed through two of its three views
AllocDataArray(c) ==
    LET b  == c.bnd
        c1 == Noted(c, "value")
        h  == Fresh(b)
        b1 == [b EXCEPT !.live = @ \cup {h}]
    IN  IF ~Succeeds(c, "value") THEN c1
        ELSE IF b.type = "OCI_CDT_NUMERIC" /\ b.subtype = "OCI_NUM_NUMBER"
        THEN [c1 EXCEPT !.bnd = [b1 EXCEPT !.data  = Ptr(h, "mem_handle"),
                                           !.input = Ptr(h, "tab_obj")]]
        ELSE IF \/ b.type = "OCI_CDT_NUMERIC" /\ b.code = "SQLT_VNU"
                \/ b.type = "OCI_CDT_TEXT" /\ cfg.wide
        THEN [c1 EXCEPT !.bnd = [b1 EXCEPT !.data  = Ptr(h, "mem_handle"),
                                           !.input = Ptr(h, "mem_struct"),
                                           !.alloc = TRUE]]
        ELSE IF b.type \in {"OCI_CDT_NUMERIC", "OCI_CDT_TEXT", "OCI_CDT_RAW"}
        THEN [c1 EXCEPT !.bnd = [b1 EXCEPT !.data  = Ptr(h, "mem_struct"),
                                           !.input = Ptr(h, "mem_struct")]]
        ELSE IF b.type \in MaterializedTypes
        THEN [c1 EXCEPT !.bnd = [b1 EXCEPT !.data  = Ptr(h, "mem_handle"),
                                           !.input = Ptr(h, "tab_obj")]]
        ELSE [c1 EXCEPT !.bnd = b1]

\* a value object: input is the object, buffer.data its wire handle
AllocDataObject(c) ==
    LET b  == c.bnd
        c1 == Noted(c, "value")
        h  == Fresh(b)
    IN  IF ~Succeeds(c, "value") THEN c1
        ELSE [c1 EXCEPT !.bnd = [b EXCEPT !.live  = @ \cup {h},
                                          !.input = Ptr(h, "obj"),
                                          !.data  = Ptr(h, "handle")]]

\* one raw buffer shared by input and buffer.data
AllocDataShared(c) ==
    LET b  == c.bnd
        c1 == Noted(c, "value")
        h  == Fresh(b)
    IN  IF ~Succeeds(c, "value")
        THEN [c1 EXCEPT !.bnd = [b EXCEPT !.input = NULL, !.data = NULL]]
        ELSE [c1 EXCEPT !.bnd = [b EXCEPT !.live  = @ \cup {h},
                                          !.input = Ptr(h, ""),
                                          !.data  = Ptr(h, "")]]

\* two raw buffers: input ("value") and buffer.data ("value2")
AllocDataPair(c) ==
    LET b  == c.bnd
        c1 == Noted(Noted(c, "value"), "value2")
        h1 == Fresh(b)
        b1 == IF Succeeds(c, "value")
              THEN [b EXCEPT !.live = @ \cup {h1}, !.input = Ptr(h1, "")]
              ELSE [b EXCEPT !.input = NULL]
        h2 == Fresh(b1)
        b2 == IF Succeeds(c, "value2")
              THEN [b1 EXCEPT !.live = @ \cup {h2}, !.data = Ptr(h2, "")]
              ELSE [b1 EXCEPT !.data = NULL]
    IN  [c1 EXCEPT !.bnd = b2]

AllocDataScalar(c) ==
    LET b == c.bnd
    IN  IF b.type = "OCI_CDT_NUMERIC"
        THEN IF b.subtype = "OCI_NUM_NUMBER" THEN AllocDataObject(c)
             ELSE IF b.code = "SQLT_VNU" THEN AllocDataPair(c)
             ELSE AllocDataShared(c)
        ELSE IF b.type = "OCI_CDT_TEXT"
        THEN IF cfg.wide THEN AllocDataPair(c) ELSE AllocDataShared(c)
        ELSE IF b.type = "OCI_CDT_RAW" THEN AllocDataShared(c)
        ELSE IF b.type \in MaterializedTypes THEN AllocDataObject(c)
        ELSE c

\* BindAllocData(bnd): the context with bnd materialized; the function's
\* return value is BindAllocDataResult of the resulting descriptor
BindAllocData(c) ==
    IF c.bnd.is_array THEN AllocDataArray(c) ELSE AllocDataScalar(c)

BindAllocDataResult(bnd) == bnd.input # NULL


(***************************************************************************)
(* BindAllocateBuffers                                                     *)
(***************************************************************************)
\* lines 88-94: the categories that get an internal buffer in external mode
NeedsBuffer(bnd) ==
    /\ bnd.type # "OCI_CDT_RAW"
    /\ bnd.type # "OCI_CDT_LONG"
    /\ bnd.type # "OCI_CDT_CURSOR"
    /\ bnd.type # "OCI_CDT_BOOLEAN"
    /\ (bnd.type # "OCI_CDT_NUMERIC" \/ bnd.code = "SQLT_VNU")
    /\ (bnd.type # "OCI_CDT_TEXT" \/ cfg.wide)

\* lines 53-61: indicator array, object indicator array
AllocIndicators(c, nballoc) ==
    IF ~c.st THEN c
    ELSE LET c1 == IF c.bnd.inds # <<>> THEN c
                   ELSE LET a == Attempt(c, "inds", "Memory")
                        IN  IF a.st THEN [a EXCEPT !.bnd.inds = Zeros(nballoc)]
                            ELSE a
         IN  IF c1.st /\ c1.bnd.code = "SQLT_NTY" /\ c1.bnd.obj_inds = 0
             THEN LET a == Attempt(c1, "obj_inds", "Memory")
                  IN  IF a.st THEN [a EXCEPT !.bnd.obj_inds = nballoc] ELSE a
             ELSE c1

\* the PL/SQL table information without the element count of the call
AllocReturnCodesKeepCount(c, nballoc, nbelem, plsql_table) ==
    IF c.st /\ plsql_table
    THEN IF c.bnd.plrcds # 0 THEN c
         ELSE LET a == Attempt(c, "plrcds", "Memory")
              IN  IF a.st THEN [a EXCEPT !.bnd.plrcds = nballoc] ELSE a
    ELSE c

\* lines 65-72: PL/SQL table information
AllocReturnCodes(c, nballoc, nbelem, plsql_table) ==
    IF c.st /\ plsql_table
    THEN LET c1 == [c EXCEPT !.bnd.nbelem = nbelem]
         IN  IF c1.bnd.plrcds # 0 THEN c1
             ELSE LET a == Attempt(c1, "plrcds", "Memory")
                  IN  IF a.st THEN [a EXCEPT !.bnd.plrcds = nballoc] ELSE a
    ELSE c

\* lines 76-79
SetAllocMode(c) ==
    IF c.st THEN [c EXCEPT !.bnd.alloc_mode = bind_alloc_mode] ELSE c

\* OCI_FREE(bnd->buffer.data)
FreeData(x) == [Release(x, x.bnd.data) EXCEPT !.bnd.data = NULL]

\* lines 84-110: the data buffer of an input bind in external mode
AllocDataBuffer(c, mode, reused, nballoc) ==
    IF c.st /\ mode = "OCI_BIND_INPUT" /\ c.bnd.alloc_mode = "OCI_BAM_EXTERNAL"
    THEN IF NeedsBuffer(c.bnd)
         THEN LET c1 == [c EXCEPT !.bnd.alloc = TRUE]
                  c2 == IF reused THEN FreeData(c1) ELSE c1
              IN  IF c2.st /\ c2.bnd.data = NULL
                  THEN LET a == Attempt(c2, "data", "Memory")
                           h == Fresh(c2.bnd)
                       IN  IF a.st
                           THEN [a EXCEPT !.bnd.data = Ptr(h, ""),
                                          !.bnd.live = @ \cup {h}]
                           ELSE a
                  ELSE c2
         ELSE [c EXCEPT !.bnd.data = c.bnd.input]
    ELSE c

\* the loop of lines 122-125 on an array of Len(lens) slots: slots past the
\* end of the array are written outside of it
FillLens(lens, nbelem, size) ==
    [i \in 1..Len(lens) |-> IF i <= nbelem THEN size % 65536 ELSE lens[i]]

\* lines 114-127: the length array
AllocLens(c, nballoc, nbelem) ==
    IF c.st /\ c.bnd.type \in {"OCI_CDT_RAW", "OCI_CDT_TEXT"}
    THEN LET c1 == IF c.bnd.lens # <<>> THEN c
                   ELSE LET a == Attempt(c, "lens", "Memory")
                        IN  IF a.st THEN [a EXCEPT !.bnd.lens = Zeros(nballoc)]
                            ELSE a
         IN  IF c1.st
             THEN [c1 EXCEPT !.bnd.lens = FillLens(@, nbelem, c1.bnd.size),
                             !.ev.oob   = @ \/ nbelem > Len(c1.bnd.lens)]
             ELSE c1
    ELSE c

\* lines 131-134: OCI_STATUS = BindAllocData(bnd)
AllocInternal(c) ==
    IF c.bnd.input = NULL /\ c.bnd.alloc_mode = "OCI_BAM_INTERNAL"
    THEN LET a == BindAllocData(c)
             r == BindAllocDataResult(a.bnd)
         IN  [a EXCEPT !.st = r, !.failed = @ \/ ~r]
    ELSE c

BindAllocateBuffers(c, mode, reused, nballoc, nbelem, plsql_table) ==
    Only({AllocInternal(c5) :
          c5 \in {AllocLens(c4, nballoc, nbelem) :
          c4 \in {AllocDataBuffer(c3, mode, reused, nballoc) :
          c3 \in {SetAllocMode(c2) :
          c2 \in {AllocReturnCodes(c1, nballoc, nbelem, plsql_table) :
          c1 \in {AllocIndicators(c, nballoc)}}}}}})


(***************************************************************************)
(* Registry: lookup, BindCheckAvailability, BindAddToStatement             *)
(***************************************************************************)
NoEntries == [n \in Names |-> <<>>]

\* the value stored for name in the map (first entry made for it), -1 when
\* the map has none
OCI_BindGetInternalIndex(m, name) ==
    IF m.entries[name] = <<>> THEN -1 ELSE m.entries[name][1]

\* OCI_HashAddInt(map, name, value)
OCI_HashAddInt(m, name, value) ==
    [m EXCEPT !.entries[name] = Append(@, value)]

\* OCI_REALLOCATE_DATA on the bind array of `which`: (re)allocates when the
\* array is missing or full
GrowArray(c, which, cur, max, new) ==
    IF c.st /\ cur >= max
    THEN LET a == Attempt(c, which, "Memory")
         IN  IF ~a.st THEN a
             ELSE IF which = "ubinds" THEN [a EXCEPT !.allocated_ubinds = new]
             ELSE [a EXCEPT !.allocated_rbinds = new]
    ELSE c

\* BindCheckAvailability comparing the counts with > instead of >=
BindCheckAvailabilityOffByOne(c, mode, reused) ==
    IF c.st /\ ~reused
    THEN IF mode = "OCI_BIND_INPUT"
         THEN LET n  == Len(c.ubinds)
                  c1 == IF n > OCI_BIND_MAX THEN Raise(c, "MaxBind") ELSE c
              IN  GrowArray(c1, "ubinds", n, c1.allocated_ubinds,
                            Min(n + OCI_BIND_ARRAY_GROWTH_FACTOR, OCI_BIND_MAX))
         ELSE LET n  == Len(c.rbinds)
                  c1 == IF n > OCI_BIND_MAX THEN Raise(c, "MaxBind") ELSE c
              IN  GrowArray(c1, "rbinds", n, c1.allocated_rbinds,
                            Min(n + OCI_BIND_ARRAY_GROWTH_FACTOR, OCI_BIND_MAX))
    ELSE c

BindCheckAvailability(c, mode, reused) ==
    IF c.st /\ ~reused
    THEN IF mode = "OCI_BIND_INPUT"
         THEN LET n  == Len(c.ubinds)
                  c1 == IF n >= OCI_BIND_MAX THEN Raise(c, "MaxBind") ELSE c
              IN  GrowArray(c1, "ubinds", n, c1.allocated_ubinds,
                            Min(n + OCI_BIND_ARRAY_GROWTH_FACTOR, OCI_BIND_MAX))
         ELSE LET n  == Len(c.rbinds)
                  c1 == IF n >= OCI_BIND_MAX THEN Raise(c, "MaxBind") ELSE c
              IN  GrowArray(c1, "rbinds", n, c1.allocated_rbinds,
                            Min(n + OCI_BIND_ARRAY_GROWTH_FACTOR, OCI_BIND_MAX))
    ELSE c

\* BindAddToStatement appending an input bind whether or not it is reused
BindAddToStatementAlways(c, mode, reused) ==
    IF mode = "OCI_BIND_INPUT"
    THEN [c EXCEPT !.ubinds = Append(@, c.bnd),
                   !.map    = OCI_HashAddInt(@, c.bnd.name, Len(c.ubinds) + 1),
                   !.where  = [arr |-> "ubinds", idx |-> Len(c.ubinds) + 1]]
    ELSE [c EXCEPT !.rbinds = Append(@, c.bnd),
                   !.map    = OCI_HashAddInt(@, c.bnd.name, -(Len(c.rbinds) + 1)),
                   !.where  = [arr |-> "rbinds", idx |-> Len(c.rbinds) + 1]]

\* BindAddToStatement adding the positive index for register binds too
BindAddToStatementUnsigned(c, mode, reused) ==
    IF mode = "OCI_BIND_INPUT"
    THEN IF ~reused
         THEN [c EXCEPT !.ubinds = Append(@, c.bnd),
                        !.map    = OCI_HashAddInt(@, c.bnd.name, Len(c.ubinds) + 1),
                        !.where  = [arr |-> "ubinds", idx |-> Len(c.ubinds) + 1]]
         ELSE c
    ELSE [c EXCEPT !.rbinds = Append(@, c.bnd),
                   !.map    = OCI_HashAddInt(@, c.bnd.name, Len(c.rbinds) + 1),
                   !.where  = [arr |-> "rbinds", idx |-> Len(c.rbinds) + 1]]

BindAddToStatement(c, mode, reused) ==
    IF mode = "OCI_BIND_INPUT"
    THEN IF ~reused
         THEN [c EXCEPT !.ubinds = Append(@, c.bnd),
                        !.map    = OCI_HashAddInt(@, c.bnd.name, Len(c.ubinds) + 1),
                        !.where  = [arr |-> "ubinds", idx |-> Len(c.ubinds) + 1]]
         ELSE c
    ELSE [c EXCEPT !.rbinds = Append(@, c.bnd),
                   !.map    = OCI_HashAddInt(@, c.bnd.name, -(Len(c.rbinds) + 1)),
                   !.where  = [arr |-> "rbinds", idx |-> Len(c.rbinds) + 1]]

(***************************************************************************)
(* BindPerformBinding                                                      *)
(***************************************************************************)
BindPerformBinding(c, mode, index, exec_mode, plsql_table) ==
    LET b  == c.bnd
        h  == [bound     |-> TRUE,
               by        |-> IF cfg.bind_mode = "OCI_BIND_BY_POS"
                             THEN "pos" ELSE "name",
               index     |-> IF cfg.bind_mode = "OCI_BIND_BY_POS"
                             THEN index ELSE 0,
               name      |-> IF cfg.bind_mode = "OCI_BIND_BY_POS"
                             THEN "" ELSE b.name,
               data      |-> b.data,
               exec_mode |-> exec_mode,
               nbelem    |-> IF plsql_table THEN b.nbelem ELSE 0,
               csfrm     |-> b.handle.csfrm]
        a1 == Attempt(c, "bind", "Oci")
        c1 == IF a1.st THEN [a1 EXCEPT !.bnd.handle = h] ELSE a1
        c2 == IF c1.st /\ b.code \in {"SQLT_NTY", "SQLT_REF"}
              THEN Attempt(c1, "bindobject", "Oci") ELSE c1
    IN  IF c2.st /\ mode = "OCI_BIND_OUTPUT"
        THEN Attempt(c2, "binddynamic", "Oci") ELSE c2

(***************************************************************************)
(* BindFree                                                                *)
(***************************************************************************)
\* BindFree releasing the length and status-code arrays only of descriptors
\* in external allocation mode
BindFreeExternalOnly(x) ==
    LET b  == x.bnd
        x1 == IF b.alloc_mode = "OCI_BAM_INTERNAL"
              THEN IF b.is_array THEN Release(x, b.input)
                   ELSE IF b.type \in {"OCI_CDT_NUMERIC", "OCI_CDT_TEXT"}
                   THEN IF b.type = "OCI_CDT_NUMERIC"
                           /\ b.subtype = "OCI_NUM_NUMBER"
                        THEN Release(x, b.input)
                        ELSE LET y == Release(x, b.input)
                             IN  IF b.alloc THEN FreeData(y) ELSE y
                   ELSE Release(x, b.input)
              ELSE IF b.alloc THEN FreeData(x) ELSE x
    IN  IF b.alloc_mode = "OCI_BAM_INTERNAL"
        THEN [x1 EXCEPT !.bnd.inds = <<>>, !.bnd.obj_inds = 0, !.bnd.name = ""]
        ELSE [x1 EXCEPT !.bnd.inds = <<>>, !.bnd.obj_inds = 0,
                        !.bnd.lens = <<>>, !.bnd.plrcds = 0, !.bnd.name = ""]

\* BindFree(bnd) for bnd # NULL on x = [bnd, ev]: the releases of lines
\* 555-608; the descriptor that results has every pointer it released NULL
BindFree(x) ==
    LET b  == x.bnd
        x1 == IF b.alloc_mode = "OCI_BAM_INTERNAL"
              THEN IF b.is_array THEN Release(x, b.input)
                   ELSE IF b.type \in {"OCI_CDT_NUMERIC", "OCI_CDT_TEXT"}
                   THEN IF b.type = "OCI_CDT_NUMERIC"
                           /\ b.subtype = "OCI_NUM_NUMBER"
                        THEN Release(x, b.input)
                        ELSE LET y == Release(x, b.input)
                             IN  IF b.alloc THEN FreeData(y) ELSE y
                   ELSE Release(x, b.input)
              ELSE IF b.alloc THEN FreeData(x) ELSE x
    IN  [x1 EXCEPT !.bnd.inds = <<>>, !.bnd.obj_inds = 0, !.bnd.lens = <<>>,
                   !.bnd.plrcds = 0, !.bnd.name = ""]

\* what BindFree leaves allocated of the blocks made for the descriptor
LeftAllocated(bnd) == bnd.live # {} \/ bnd.lost

\* BindFree(bnd) for any bnd, has telling bnd # NULL: res is the value the
\* function returns, gone tells that the descriptor itself was released.
\* ArrayFreeFromHandles and no other step decides res for bnd # NULL; it is
\* taken as succeeding.
BindFreeOf(has, x) ==
    IF ~has THEN [res |-> FALSE, gone |-> FALSE, bnd |-> x.bnd, ev |-> x.ev]
    ELSE LET y == BindFree(x)
         IN  [res |-> TRUE, gone |-> TRUE, bnd |-> y.bnd, ev |-> y.ev]


(***************************************************************************)
(* BindCreate                                                              *)
(***************************************************************************)
Nowhere == [arr |-> "none", idx |-> 0]

\* the local variables of BindCreate at entry, OCI_STATUS = TRUE, and the
\* statement fields the call writes
CallStart(nbelem, faults) ==
    [st |-> TRUE, errs |-> {}, failed |-> FALSE, late |-> {},
     faults |-> faults, ev |-> NoEvents,
     bnd |-> ZeroBind, has |-> FALSE, made |-> FALSE, slot |-> 0,
     where |-> Nowhere, freed |-> FALSE, leftover |-> FALSE,
     exec_mode |-> "OCI_DEFAULT", plsql_table |-> FALSE, is_array |-> FALSE,
     reused |-> FALSE, index |-> 0, prev_index |-> -1,
     nbelem |-> nbelem, nballoc |-> nbelem,
     ubinds |-> ubinds, rbinds |-> rbinds, map |-> map,
     allocated_ubinds |-> allocated_ubinds,
     allocated_rbinds |-> allocated_rbinds]

\* lines 359-368
CheckPosition(c, name) ==
    IF cfg.bind_mode = "OCI_BIND_BY_POS"
    THEN LET c1 == [c EXCEPT !.index = Position(name)]
         IN  IF c1.index <= 0 \/ c1.index > OCI_BIND_MAX
             THEN Raise(c1, "OutOfBounds") ELSE c1
    ELSE c

\* the name check taking the reuse of a bound name as always permitted
CheckNameReuseAlways(c, name, mode, type) ==
    IF c.st /\ mode = "OCI_BIND_INPUT"
    THEN LET prev == OCI_BindGetInternalIndex(c.map, name)
             c1   == [c EXCEPT !.prev_index = prev]
         IN  IF prev > 0
             THEN LET c2 == [c1 EXCEPT !.bnd = c.ubinds[prev],
                                       !.has = TRUE, !.slot = prev,
                                       !.index = prev]
                  IN  IF c2.bnd.type # type
                      THEN Raise(c2, "RebindBadDatatype")
                      ELSE [c2 EXCEPT !.reused = TRUE]
             ELSE c1
    ELSE c

\* lines 372-403
CheckName(c, name, mode, type) ==
    IF c.st /\ mode = "OCI_BIND_INPUT"
    THEN LET prev == OCI_BindGetInternalIndex(c.map, name)
             c1   == [c EXCEPT !.prev_index = prev]
         IN  IF prev > 0
             THEN IF ~bind_reuse
                  THEN [Raise(c1, "BindAlreadyUsed") EXCEPT !.index = prev]
                  ELSE LET c2 == [c1 EXCEPT !.bnd = c.ubinds[prev],
                                            !.has = TRUE, !.slot = prev,
                                            !.index = prev]
                       IN  IF c2.bnd.type # type
                           THEN Raise(c2, "RebindBadDatatype")
                           ELSE [c2 EXCEPT !.reused = TRUE]
             ELSE c1
    ELSE c

\* lines 411-444
Sizing(c) ==
    IF c.st
    THEN LET plsql == c.nbelem > 0 /\ cfg.plsql
             c1 == [c EXCEPT
                      !.plsql_table = plsql,
                      !.is_array    = IF c.nbelem > 0 THEN plsql
                                      ELSE cfg.bind_array,
                      !.nbelem      = IF c.nbelem > 0 THEN c.nbelem
                                      ELSE cfg.nb_iters,
                      !.nballoc     = IF c.nballoc < cfg.nb_iters_init
                                      THEN cfg.nb_iters_init ELSE c.nballoc]
         IN  IF c1.map.alloc THEN c1
             ELSE LET a == Attempt(c1, "map", "Memory")
                  IN  IF a.st THEN [a EXCEPT !.map.alloc = TRUE] ELSE a
    ELSE c

\* line 448: OCI_ALLOCATE_DATA(OCI_IPC_BIND, bnd, 1)
AllocBind(c) ==
    IF c.st /\ ~c.has
    THEN LET a == Attempt(c, "bnd", "Memory")
         IN  IF a.st THEN [a EXCEPT !.bnd = ZeroBind, !.has = TRUE,
                                    !.made = TRUE]
             ELSE a
    ELSE c

\* the execution mode chosen from the type alone
ExecModeByTypeOnly(c, mode, size) ==
    IF c.bnd.type = "OCI_CDT_LONG"
    THEN [c EXCEPT !.exec_mode   = "OCI_DATA_AT_EXEC",
                   !.bnd.maxsize = IF c.bnd.subtype = "OCI_CLONG"
                                   THEN (size \div SizeofOtext) * SizeofDbtext
                                   ELSE size]
    ELSE c

\* lines 482-498
ExecMode(c, mode, size) ==
    IF c.bnd.type = "OCI_CDT_LONG"
    THEN [c EXCEPT !.exec_mode   = "OCI_DATA_AT_EXEC",
                   !.bnd.maxsize = IF c.bnd.subtype = "OCI_CLONG"
                                   THEN (size \div SizeofOtext) * SizeofDbtext
                                   ELSE size]
    ELSE IF mode = "OCI_BIND_OUTPUT"
    THEN [c EXCEPT !.exec_mode = "OCI_DATA_AT_EXEC"]
    ELSE c

\* the initialization of the descriptor without the test of OCI_STATUS
InitBindUnguarded(c, data, name, mode, size, kind) ==
    LET c1 == [c EXCEPT
                 !.bnd.input     = data,
                 !.bnd.type      = kind.type,
                 !.bnd.size      = size,
                 !.bnd.code      = kind.code,
                 !.bnd.subtype   = kind.subtype,
                 !.bnd.is_array  = c.is_array,
                 !.bnd.csfrm     = "OCI_CSF_NONE",
                 !.bnd.direction = "OCI_BDM_IN_OUT",
                 !.bnd.name      = IF @ = "" THEN name ELSE @,
                 !.bnd.count     = c.nbelem]
    IN  Only({ExecMode(c2, mode, size) :
              c2 \in {BindAllocateBuffers(c1, mode, c1.reused, c1.nballoc,
                                          c1.nbelem, c1.plsql_table)}})

\* lines 452-499
InitBind(c, data, name, mode, size, kind) ==
    IF c.st
    THEN LET c1 == [c EXCEPT
                      !.bnd.input     = data,
                      !.bnd.type      = kind.type,
                      !.bnd.size      = size,
                      !.bnd.code      = kind.code,
                      !.bnd.subtype   = kind.subtype,
                      !.bnd.is_array  = c.is_array,
                      !.bnd.csfrm     = "OCI_CSF_NONE",
                      !.bnd.direction = "OCI_BDM_IN_OUT",
                      !.bnd.name      = IF @ = "" THEN name ELSE @,
                      !.bnd.count     = c.nbelem]
         IN  Only({ExecMode(c2, mode, size) :
                   c2 \in {BindAllocateBuffers(c1, mode, c1.reused, c1.nballoc,
                                               c1.nbelem, c1.plsql_table)}})
    ELSE c

\* lines 503-506
Binding(c, mode) ==
    IF c.st
    THEN BindPerformBinding(c, mode, c.index, c.exec_mode, c.plsql_table)
    ELSE c

\* lines 510-518
CharsetForm(c) ==
    IF c.st /\ c.bnd.type = "OCI_CDT_LOB" /\ c.bnd.subtype = "OCI_NCLOB"
    THEN LET a == Attempt(c, "attr", "Oci")
         IN  IF a.st THEN [a EXCEPT !.bnd.handle.csfrm = "SQLCS_NCHAR"] ELSE a
    ELSE c

\* the registration of any descriptor the call holds, failed or not
RegisterAnyDescriptor(c, mode) ==
    IF c.has THEN BindAddToStatement(c, mode, c.reused) ELSE c

\* lines 525-528
Register(c, mode) ==
    IF c.st THEN BindAddToStatement(c, mode, c.reused) ELSE c

\* the cleanup without the test that the descriptor is new to the call
CleanupAnyDescriptor(c) ==
    IF ~c.st /\ c.has
    THEN LET x == BindFree([bnd |-> c.bnd, ev |-> c.ev])
         IN  [c EXCEPT !.bnd = ZeroBind, !.has = FALSE, !.ev = x.ev,
                       !.freed = TRUE, !.leftover = LeftAllocated(x.bnd)]
    ELSE c

\* lines 530-537
Cleanup(c) ==
    IF ~c.st /\ c.has /\ c.prev_index = -1
    THEN LET x == BindFree([bnd |-> c.bnd, ev |-> c.ev])
         IN  [c EXCEPT !.bnd = ZeroBind, !.has = FALSE, !.ev = x.ev,
                       !.freed = TRUE, !.leftover = LeftAllocated(x.bnd)]
    ELSE c

\* the whole of BindCreate
BindCreateRun(data, name, mode, size, kind, nbelem, faults) ==
    Only({Cleanup(c9) :
          c9 \in {Register(c8, mode) :
          c8 \in {CharsetForm(c7) :
          c7 \in {Binding(c6, mode) :
          c6 \in {InitBind(c5, data, name, mode, size, kind) :
          c5 \in {AllocBind(c4) :
          c4 \in {Sizing(c3) :
          c3 \in {BindCheckAvailability(c2, mode, c2.reused) :
          c2 \in {CheckName(c1, name, mode, kind.type) :
          c1 \in {CheckPosition(CallStart(nbelem, faults), name)}}}}}}}}}})

\* line 539: the descriptor BindCreate returns, as the place it is
\* registered at ("null": NULL, "none": a descriptor registered nowhere)
Returned(c) ==
    IF ~c.has THEN [arr |-> "null", idx |-> 0]
    ELSE IF c.slot > 0 THEN [arr |-> "ubinds", idx |-> c.slot]
    ELSE c.where


(***************************************************************************)
(* Accessors of a descriptor                                               *)
(***************************************************************************)
OCI_IND_NULL    == -1
OCI_IND_NOTNULL == 0

\* OCI_CALL_CHECK_BOUND(con, position, 1, bnd->buffer.count)
InBound(bnd, position) == position >= 1 /\ position <= bnd.count

\* the outcome of an accessor that writes: the exception it raised if any,
\* the value it returns, the descriptor afterwards, and whether it wrote
\* outside of the array it addressed
Written(err, ret, bnd, oob) ==
    [err |-> err, ret |-> ret, bnd |-> bnd, oob |-> oob]

\* the outcome of an accessor that reads: exception and return value
Read(err, ret) == [err |-> err, ret |-> ret]

\* what a slot outside of an allocated array of 16-bit values may hold
StrayLens == {0, 1}

\* lines 929-944
OCI_BindSetNullIndicator(bnd, position, value) ==
    IF bnd.inds = <<>> THEN Written("", TRUE, bnd, FALSE)
    ELSE IF position <= Len(bnd.inds)
    THEN Written("", TRUE, [bnd EXCEPT !.inds[position] = value], FALSE)
    ELSE Written("", TRUE, bnd, TRUE)

\* lines 1131-1145
BindSetNullAtPos(bnd, position) ==
    IF ~InBound(bnd, position) THEN Written("OutOfBounds", FALSE, bnd, FALSE)
    ELSE OCI_BindSetNullIndicator(bnd, position, OCI_IND_NULL)

\* lines 1163-1177
BindSetNotNullAtPos(bnd, position) ==
    IF ~InBound(bnd, position) THEN Written("OutOfBounds", FALSE, bnd, FALSE)
    ELSE OCI_BindSetNullIndicator(bnd, position, OCI_IND_NOTNULL)

\* lines 1195-1212: the outcomes the call can have; a read outside of the
\* indicator array yields whatever the memory there holds
BindIsNullAtPos(bnd, position) ==
    IF ~InBound(bnd, position) THEN {Read("OutOfBounds", TRUE)}
    ELSE IF bnd.inds = <<>> THEN {Read("", TRUE)}
    ELSE IF position <= Len(bnd.inds)
    THEN {Read("", bnd.inds[position] = OCI_IND_NULL)}
    ELSE {Read("", r) : r \in BOOLEAN}

\* lines 1062-1074: the value stored in the length slot for size
StoredSize(bnd, size) ==
    LET s == IF bnd.type = "OCI_CDT_TEXT"
             THEN (IF bnd.size = size THEN size + SizeofDbtext ELSE size)
                  * SizeofDbtext
             ELSE size
    IN  s % 65536

\* lines 1049-1080
BindSetDataSizeAtPos(bnd, position, size) ==
    IF ~InBound(bnd, position) THEN Written("OutOfBounds", FALSE, bnd, FALSE)
    ELSE IF size < 1 THEN Written("MinValue", FALSE, bnd, FALSE)
    ELSE IF bnd.lens = <<>> THEN Written("", FALSE, bnd, FALSE)
    ELSE IF position <= Len(bnd.lens)
    THEN Written("", TRUE,
                 [bnd EXCEPT !.lens[position] = StoredSize(bnd, size)], FALSE)
    ELSE Written("", TRUE, bnd, TRUE)

\* lines 1111-1121: the size reported for the value v of a length slot; the
\* subtraction is unsigned on 32 bits and wraps for v = 1 under a wire
\* character of 2 bytes, the only v below the wire character width that
\* bnd->size can equal
ReportedSize(bnd, v) ==
    IF bnd.type = "OCI_CDT_TEXT"
    THEN IF bnd.size = v
         THEN IF v >= SizeofDbtext THEN (v - SizeofDbtext) \div SizeofDbtext
              ELSE 2147483647
         ELSE v \div SizeofDbtext
    ELSE v

\* lines 1098-1125: the outcomes the call can have
BindGetDataSizeAtPos(bnd, position) ==
    IF ~InBound(bnd, position) THEN {Read("OutOfBounds", 0)}
    ELSE IF bnd.lens = <<>> THEN {Read("", 0)}
    ELSE IF position <= Len(bnd.lens)
    THEN {Read("", ReportedSize(bnd, bnd.lens[position]))}
    ELSE {Read("", ReportedSize(bnd, v)) : v \in StrayLens}


\* the values BindSetCharsetForm and BindSetDirection accept (lines 37-38)
CharsetFormValues   == {"OCI_CSF_DEFAULT", "OCI_CSF_NATIONAL"}
BindDirectionValues == {"OCI_BDM_IN", "OCI_BDM_OUT", "OCI_BDM_IN_OUT"}

\* the check the setters make of an enumerated argument: the value is one
\* of the listed ones
OCI_CALL_CHECK_ENUM_VALUE(value, values) == value \in values

\* lines 1243-1250: the wire charset form of an accepted value
WireCharsetForm(csfrm) ==
    IF csfrm = "OCI_CSF_NATIONAL" THEN "SQLCS_NCHAR" ELSE "SQLCS_IMPLICIT"

\* BindSetCharsetForm changing the charset form of a descriptor of any type
BindSetCharsetFormAnyType(bnd, csfrm, attr_ok) ==
    IF ~OCI_CALL_CHECK_ENUM_VALUE(csfrm, CharsetFormValues)
    THEN Written("EnumValue", FALSE, bnd, FALSE)
    ELSE LET b1 == [bnd EXCEPT !.csfrm = WireCharsetForm(csfrm)]
         IN  IF attr_ok
             THEN Written("", TRUE,
                          [b1 EXCEPT !.handle.csfrm = b1.csfrm], FALSE)
             ELSE Written("Oci", FALSE, b1, FALSE)

\* lines 1230-1258; attr_ok tells whether OCI_SET_ATTRIB succeeds
BindSetCharsetForm(bnd, csfrm, attr_ok) ==
    IF ~OCI_CALL_CHECK_ENUM_VALUE(csfrm, CharsetFormValues)
    THEN Written("EnumValue", FALSE, bnd, FALSE)
    ELSE IF bnd.type \in {"OCI_CDT_TEXT", "OCI_CDT_LONG"}
    THEN LET b1 == [bnd EXCEPT !.csfrm = WireCharsetForm(csfrm)]
         IN  IF attr_ok
             THEN Written("", TRUE,
                          [b1 EXCEPT !.handle.csfrm = b1.csfrm], FALSE)
             ELSE Written("Oci", FALSE, b1, FALSE)
    ELSE Written("", TRUE, bnd, FALSE)

\* lines 1264-1271
BindSetDirection(bnd, direction) ==
    IF ~OCI_CALL_CHECK_ENUM_VALUE(direction, BindDirectionValues)
    THEN Written("EnumValue", FALSE, bnd, FALSE)
    ELSE Written("", TRUE, [bnd EXCEPT !.direction = direction], FALSE)

\* lines 1277-1283
BindGetDirection(bnd) == bnd.direction


(***************************************************************************)
(* Operations                                                              *)
(***************************************************************************)
BoundNames(seq) == {seq[i].name : i \in 1..Len(seq)}

\* A call: the arguments of BindCreate and the faults injected into it.
\* The calls the public bind and register functions make: an input bind
\* passes a data pointer exactly in external allocation mode, a register
\* call passes none, and OCI_Long data is always supplied by the caller.
\* An input bind looks its name up in the map.  What the lookup yields for
\* a name that the map also holds a register (output) entry for is not
\* settled by bind.c, so a name registered as an output placeholder is not
\* bound as input.
ValidCall(i) ==
    /\ i.data # NULL <=> (i.mode = "OCI_BIND_INPUT"
                          /\ bind_alloc_mode = "OCI_BAM_EXTERNAL")
    /\ i.kind.type = "OCI_CDT_LONG" => i.data # NULL
    /\ i.mode = "OCI_BIND_INPUT" => i.name \notin BoundNames(rbinds)

\* the sets of at most n faults among F
RECURSIVE FaultSets(_, _)
FaultSets(F, n) ==
    IF n = 0 THEN {{}}
    ELSE LET S == FaultSets(F, n - 1) IN S \cup {s \cup {f} : s \in S, f \in F}

\* the calls of a universe U of arguments that are valid in this state
Calls(U) ==
    {i \in [mode : U.modes, name : U.names, kind : U.kinds, size : U.sizes,
            nbelem : U.nbelems, data : {NULL} \cup {Ptr(u, "") : u \in U.ptrs},
            faults : FaultSets(U.faults, MaxFaults)] : ValidCall(i)}

Run(i) ==
    BindCreateRun(i.data, i.name, i.mode, i.size, i.kind, i.nbelem, i.faults)

\* the registry after a call: a reused descriptor was written in place
PutBack(c) ==
    LET u == IF c.slot > 0 THEN [c.ubinds EXCEPT ![c.slot] = c.bnd]
             ELSE c.ubinds
    IN  [k \in 1..Len(u) |-> Account(u[k])]

BindCreateIn(U) ==
    \E i \in Calls(U) :
        \E c \in {Run(i)} :
            /\ ubinds' = PutBack(c)
            /\ rbinds' = [k \in 1..Len(c.rbinds) |-> Account(c.rbinds[k])]
            /\ map' = c.map
            /\ allocated_ubinds' = c.allocated_ubinds
            /\ allocated_rbinds' = c.allocated_rbinds
            /\ UNCHANGED <<cfg, bind_reuse, bind_alloc_mode>>

\* what BindFree does to one registered descriptor
FreeOutcome(bnd) ==
    LET x == BindFree([bnd |-> bnd, ev |-> NoEvents])
    IN  [alloc_mode |-> bnd.alloc_mode, ev |-> x.ev,
         left |-> LeftAllocated(x.bnd)]

\* the statement releases its binds (statement disposal or re-preparation):
\* BindFree on every registered descriptor, then an empty registry
BindFreeAll ==
    /\ nb_ubinds + nb_rbinds > 0
    /\ ubinds' = <<>>
    /\ rbinds' = <<>>
    /\ allocated_ubinds' = 0
    /\ allocated_rbinds' = 0
    /\ map' = [alloc |-> FALSE, entries |-> NoEntries]
    /\ UNCHANGED <<cfg, bind_reuse, bind_alloc_mode>>

\* OCI_AllowRebinding(stmt, value)
AllowRebinding ==
    /\ bind_reuse' = ~bind_reuse
    /\ UNCHANGED <<cfg, bind_alloc_mode, ubinds, rbinds, allocated_ubinds,
                   allocated_rbinds, map>>

\* OCI_SetBindAllocation(stmt, mode)
SetBindAllocation ==
    /\ bind_alloc_mode' = IF bind_alloc_mode = "OCI_BAM_EXTERNAL"
                          THEN "OCI_BAM_INTERNAL" ELSE "OCI_BAM_EXTERNAL"
    /\ UNCHANGED <<cfg, bind_reuse, ubinds, rbinds, allocated_ubinds,
                   allocated_rbinds, map>>

\* the caller of a bind function sets, clears the null indicator or sets
\* the data size of an input bind at a position
Others == <<cfg, bind_reuse, bind_alloc_mode, rbinds, allocated_ubinds,
            allocated_rbinds, map>>

SetNullAt ==
    \E k \in 1..nb_ubinds : \E p \in 0..MaxElem + 1 :
        \E w \in {BindSetNullAtPos(ubinds[k], p)} :
            /\ ubinds' = [ubinds EXCEPT ![k] = w.bnd]
            /\ UNCHANGED Others

SetNotNullAt ==
    \E k \in 1..nb_ubinds : \E p \in 0..MaxElem + 1 :
        \E w \in {BindSetNotNullAtPos(ubinds[k], p)} :
            /\ ubinds' = [ubinds EXCEPT ![k] = w.bnd]
            /\ UNCHANGED Others

SetDataSizeAt ==
    \E k \in 1..nb_ubinds : \E p \in 0..MaxElem + 1 :
        \E size \in {0, 1, ubinds[k].size} :
            \E w \in {BindSetDataSizeAtPos(ubinds[k], p, size)} :
                /\ ubinds' = [ubinds EXCEPT ![k] = w.bnd]
                /\ UNCHANGED Others

\* the caller sets the charset form or the direction of an input bind
SetCharsetFormAt ==
    \E k \in 1..nb_ubinds :
        \E csfrm \in CharsetFormValues \cup {"OCI_CSF_NONE"} :
            \E attr_ok \in BOOLEAN :
                \E w \in {BindSetCharsetForm(ubinds[k], csfrm, attr_ok)} :
                    /\ ubinds' = [ubinds EXCEPT ![k] = w.bnd]
                    /\ UNCHANGED Others

SetDirectionAt ==
    \E k \in 1..nb_ubinds :
        \E direction \in BindDirectionValues \cup {"OCI_UNKNOWN"} :
            \E w \in {BindSetDirection(ubinds[k], direction)} :
                /\ ubinds' = [ubinds EXCEPT ![k] = w.bnd]
                /\ UNCHANGED Others

Configs ==
    {g \in [plsql      : BOOLEAN,
            bind_mode  : {"OCI_BIND_BY_NAME", "OCI_BIND_BY_POS"},
            wide       : BOOLEAN,
            bind_array : BOOLEAN,
            nb_iters      : 1..MaxElem,
            nb_iters_init : 1..MaxElem] : g.nb_iters <= g.nb_iters_init}

InitIn(G, M) ==
    /\ cfg \in G
    /\ bind_reuse = FALSE
    /\ bind_alloc_mode \in M
    /\ ubinds = <<>>
    /\ rbinds = <<>>
    /\ allocated_ubinds = 0
    /\ allocated_rbinds = 0
    /\ map = [alloc |-> FALSE, entries |-> NoEntries]

(***************************************************************************)
(* Specification of the registry: three names, input and output binds, by  *)
(* name and by position, external allocation                               *)
(***************************************************************************)
URegistry ==
    [modes |-> {"OCI_BIND_INPUT", "OCI_BIND_OUTPUT"}, names |-> Names,
     kinds |-> {NumInt}, sizes |-> {4}, nbelems |-> {0}, ptrs |-> {"u1"},
     faults |-> {"ubinds", "rbinds", "map", "bnd", "bind"}]

GRegistry ==
    {g \in Configs : ~g.plsql /\ ~g.wide /\ ~g.bind_array /\ g.nb_iters_init = 1}

InitRegistry == InitIn(GRegistry, {"OCI_BAM_EXTERNAL"})

RegistryBindCreate == BindCreateIn(URegistry)

NextRegistry ==
    \/ RegistryBindCreate
    \/ BindFreeAll
    \/ AllowRebinding

SpecRegistry == InitRegistry /\ [][NextRegistry]_vars

(***************************************************************************)
(* Specification of the buffers: one placeholder bound and rebound as      *)
(* input with every buffer layout, in both allocation modes, with a fault  *)
(* at any site such a call reaches                                         *)
(***************************************************************************)
UBuffers ==
    [modes |-> {"OCI_BIND_INPUT"}, names |-> {":1"},
     kinds |-> {NumInt, NumBigInt, NumNumber, Text, Raw, Date},
     sizes |-> {4}, nbelems |-> {0}, ptrs |-> CallerPtrs,
     faults |-> {"ubinds", "map", "bnd", "inds", "data", "lens", "value",
                 "value2", "bind"}]

GBuffers ==
    {g \in Configs : ~g.plsql /\ ~g.bind_array /\ g.nb_iters_init = 1
                        /\ g.bind_mode = "OCI_BIND_BY_NAME"}

Init == InitIn(GBuffers, {"OCI_BAM_EXTERNAL"})

BindCreate == BindCreateIn(UBuffers)

Next ==
    \/ BindCreate
    \/ BindFreeAll
    \/ AllowRebinding
    \/ SetBindAllocation

Spec == Init /\ [][Next]_vars

(***************************************************************************)
(* Specification of the cardinality: one placeholder bound and rebound as  *)
(* input with any element count, on PL/SQL and other statements, with and  *)
(* without bulk arrays, in either allocation mode                          *)
(***************************************************************************)
UTables ==
    [modes |-> {"OCI_BIND_INPUT"}, names |-> {":1"},
     kinds |-> {NumInt, Text}, sizes |-> {4},
     nbelems |-> 0..MaxElem, ptrs |-> {"u1"},
     faults |-> {"plrcds"}]

GTables ==
    {g \in Configs : ~g.wide /\ g.bind_mode = "OCI_BIND_BY_NAME"}

InitTables == InitIn(GTables, {"OCI_BAM_EXTERNAL", "OCI_BAM_INTERNAL"})

TablesBindCreate == BindCreateIn(UTables)

NextTables ==
    \/ TablesBindCreate
    \/ BindFreeAll
    \/ AllowRebinding

SpecTables == InitTables /\ [][NextTables]_vars

(***************************************************************************)
(* Specification of the accessors: one placeholder bound and rebound as    *)
(* input with any element count, and its indicators and data sizes set     *)
(***************************************************************************)
UAccess ==
    [modes |-> {"OCI_BIND_INPUT"}, names |-> {":1"}, kinds |-> {NumInt, Text},
     sizes |-> Sizes, nbelems |-> 0..MaxElem, ptrs |-> {"u1"}, faults |-> {}]

GAccess ==
    {g \in Configs : ~g.plsql /\ ~g.bind_array
                        /\ g.bind_mode = "OCI_BIND_BY_NAME"
                        /\ g.nb_iters = g.nb_iters_init}

InitAccess == InitIn(GAccess, {"OCI_BAM_EXTERNAL"})

AccessBindCreate == BindCreateIn(UAccess)

NextAccess ==
    \/ AccessBindCreate
    \/ BindFreeAll
    \/ AllowRebinding
    \/ SetNullAt
    \/ SetNotNullAt
    \/ SetDataSizeAt

SpecAccess == InitAccess /\ [][NextAccess]_vars

(***************************************************************************)
(* Specification of the failures: two placeholders bound as input and as   *)
(* output, a step of BindCreate failing                                    *)
(***************************************************************************)
UFailure ==
    [modes |-> {"OCI_BIND_INPUT", "OCI_BIND_OUTPUT"}, names |-> {":1", ":2"},
     kinds |-> {NumInt}, sizes |-> {4}, nbelems |-> {0}, ptrs |-> {"u1"},
     faults |-> {"bnd", "bind"}]

InitFailure == InitIn(GRegistry, {"OCI_BAM_EXTERNAL"})

FailureBindCreate == BindCreateIn(UFailure)

NextFailure ==
    \/ FailureBindCreate
    \/ BindFreeAll
    \/ AllowRebinding

SpecFailure == InitFailure /\ [][NextFailure]_vars

(***************************************************************************)
(* Specification of the attributes: one placeholder bound and rebound as   *)
(* input, and its charset form and direction set                           *)
(***************************************************************************)
UAttributes ==
    [modes |-> {"OCI_BIND_INPUT"}, names |-> {":1"},
     kinds |-> {NumInt, Text, Long}, sizes |-> {4}, nbelems |-> {0},
     ptrs |-> {"u1"}, faults |-> {"bind"}]

GAttributes ==
    {g \in Configs : ~g.plsql /\ ~g.bind_array /\ ~g.wide
                        /\ g.bind_mode = "OCI_BIND_BY_NAME"
                        /\ g.nb_iters = g.nb_iters_init}

InitAttributes == InitIn(GAttributes, {"OCI_BAM_EXTERNAL"})

AttributesBindCreate == BindCreateIn(UAttributes)

NextAttributes ==
    \/ AttributesBindCreate
    \/ BindFreeAll
    \/ AllowRebinding
    \/ SetCharsetFormAt
    \/ SetDirectionAt

SpecAttributes == InitAttributes /\ [][NextAttributes]_vars

(***************************************************************************)
(* Properties                                                              *)
(***************************************************************************)
\* every descriptor registered on the statement
Registered == ubinds \o rbinds

\* the slot of ubinds that holds the input bind of name
SlotOf(name) == CHOOSE k \in 1..Len(ubinds) : ubinds[k].name = name

\* the sites of a call that are memory allocations
AllocationSites ==
    FaultPoints \ {"bind", "bindobject", "binddynamic", "attr"}

\* input binds with any type, size and data pointer
UAnyInput ==
    [modes |-> {"OCI_BIND_INPUT"}, names |-> Names, kinds |-> Kinds,
     sizes |-> Sizes, nbelems |-> {0}, ptrs |-> CallerPtrs,
     faults |-> {"map", "bnd", "bind"}]

\* input binds with any type, size, element count and data pointer in which
\* every allocation and wire call succeeds
UAnyInputNoFault ==
    [modes |-> {"OCI_BIND_INPUT"}, names |-> Names, kinds |-> Kinds,
     sizes |-> Sizes, nbelems |-> {0, MaxElem}, ptrs |-> CallerPtrs,
     faults |-> {}]

\* the call binds as input a name that an input bind is registered for
Rebinds(i) == i.mode = "OCI_BIND_INPUT" /\ i.name \in BoundNames(ubinds)

\* the call leaves the registry of the statement as it is
RegistryKept(c) ==
    /\ PutBack(c) = ubinds
    /\ c.rbinds = rbinds
    /\ c.map.entries = map.entries

\* C1: no call of BindCreate and no BindFree of a registered descriptor
\* releases a data pointer that a caller supplied
NoCallerPointerFreed ==
    /\ \A i \in Calls(UBuffers) : \A c \in {Run(i)} : c.ev.fc = {}
    /\ \A k \in 1..Len(Registered) : FreeOutcome(Registered[k]).ev.fc = {}

\* C2: BindFree of a descriptor whose alloc_mode is internal releases every
\* block allocated on its behalf exactly once: none twice, none left over
InternalBuffersFreedOnce ==
    \A k \in 1..Len(Registered) :
        Registered[k].alloc_mode = "OCI_BAM_INTERNAL" =>
            \A o \in {FreeOutcome(Registered[k])} : ~o.ev.df /\ ~o.left

\* C3: a call of BindCreate whose status is failed at its end returns null
ReturnsNullOnFailure ==
    \A i \in Calls(UBuffers) :
        \A c \in {Run(i)} : ~c.st => Returned(c).arr = "null"

\* C4: no call of BindCreate attempts a memory allocation at a moment the
\* status is failed
NoAllocationAfterFailure ==
    \A i \in Calls(UBuffers) :
        \A c \in {Run(i)} : c.late \cap AllocationSites = {}

\* C5: a call of BindCreate in which the status was set to failed ends with
\* the status failed and registers no descriptor
NoFailureSwallowed ==
    \A i \in Calls(UBuffers) :
        \A c \in {Run(i)} : c.failed => ~c.st /\ c.where = Nowhere

\* C6: no two descriptors registered on the statement, in ubinds or rbinds,
\* carry the same placeholder name
NoDuplicateNames ==
    \A j, k \in 1..Len(Registered) :
        j # k => Registered[j].name # Registered[k].name

\* C7: with bind_reuse disabled, an input bind of a name registered as input
\* fails with the bind-already-used error and nothing else, returns null and
\* changes nothing, whatever type, size, data pointer and faults it has
RebindWithoutReuseFails ==
    ~bind_reuse =>
        \A i \in Calls(UAnyInput) :
            Rebinds(i) =>
                \A c \in {Run(i)} :
                    /\ c.errs = {"BindAlreadyUsed"}
                    /\ ~c.st
                    /\ Returned(c).arr = "null"
                    /\ RegistryKept(c)

\* C7 happens: reuse is disabled and an input bind of a registered name with
\* another type than the registered one is refused as already used
RebindWithoutReuseSeen ==
    /\ ~bind_reuse
    /\ \E i \in Calls(UAnyInput) :
           /\ Rebinds(i)
           /\ i.kind.type # ubinds[SlotOf(i.name)].type
           /\ "BindAlreadyUsed" \in Run(i).errs

\* C8: with bind_reuse enabled, an input bind of a name registered as input
\* with the registered type, in which no allocation and no wire call fails,
\* succeeds, returns the descriptor of the slot of that name, and leaves
\* nb_ubinds and the map entry of the name unchanged
RebindSameTypeSucceeds ==
    bind_reuse =>
        \A i \in Calls(UAnyInputNoFault) :
            Rebinds(i) /\ i.kind.type = ubinds[SlotOf(i.name)].type =>
                \A c \in {Run(i)} :
                    /\ c.st /\ c.errs = {}
                    /\ Returned(c) = [arr |-> "ubinds", idx |-> SlotOf(i.name)]
                    /\ PutBack(c)[SlotOf(i.name)].name = i.name
                    /\ Len(c.ubinds) = nb_ubinds
                    /\ c.map.entries[i.name] = map.entries[i.name]

\* C8 happens: reuse is enabled and a rebind of a registered name with the
\* same type and another wire code succeeds on the registered slot
RebindSameTypeSeen ==
    /\ bind_reuse
    /\ \E i \in Calls(UAnyInputNoFault) :
           /\ Rebinds(i)
           /\ i.kind.type = ubinds[SlotOf(i.name)].type
           /\ i.kind.code # ubinds[SlotOf(i.name)].code
           /\ Run(i).st
           /\ Returned(Run(i)) = [arr |-> "ubinds", idx |-> SlotOf(i.name)]

\* C9: with bind_reuse enabled, an input bind of a name registered as input
\* with another type than the registered one fails with the bad-rebind-
\* datatype error and nothing else, releases nothing, and leaves every
\* registered descriptor, every slot and the map as they are
RebindOtherTypeRefused ==
    bind_reuse =>
        \A i \in Calls(UAnyInput) :
            Rebinds(i) /\ i.kind.type # ubinds[SlotOf(i.name)].type =>
                \A c \in {Run(i)} :
                    /\ c.errs = {"RebindBadDatatype"}
                    /\ ~c.st
                    /\ c.ev = NoEvents
                    /\ RegistryKept(c)

\* C9 happens: reuse is enabled and a rebind of a registered name with
\* another type is refused while its descriptor stays in its slot
RebindOtherTypeSeen ==
    /\ bind_reuse
    /\ \E i \in Calls(UAnyInput) :
           /\ Rebinds(i)
           /\ i.kind.type # ubinds[SlotOf(i.name)].type
           /\ "RebindBadDatatype" \in Run(i).errs
           /\ PutBack(Run(i))[SlotOf(i.name)] = ubinds[SlotOf(i.name)]

\* input and output binds of any type
UAnyBind ==
    [modes |-> {"OCI_BIND_INPUT", "OCI_BIND_OUTPUT"}, names |-> Names,
     kinds |-> Kinds, sizes |-> {4}, nbelems |-> {0}, ptrs |-> {"u1"},
     faults |-> URegistry.faults]

\* the call passes the position and name checks and asks for a new slot
AddsNew(i) ==
    /\ cfg.bind_mode = "OCI_BIND_BY_POS" => Position(i.name) \in 1..OCI_BIND_MAX
    /\ i.mode = "OCI_BIND_INPUT" => i.name \notin BoundNames(ubinds)

\* the number of binds registered for the mode of the call
CountFor(i) == IF i.mode = "OCI_BIND_INPUT" THEN nb_ubinds ELSE nb_rbinds

\* C10: nb_ubinds and nb_rbinds never exceed OCI_BIND_MAX; a call for a new
\* slot when the count of its mode is OCI_BIND_MAX fails with the too-many-
\* binds error, returns null and adds nothing; a rebind of a registered name
\* with the registered type is accepted when nb_ubinds is OCI_BIND_MAX
BindCountsBounded ==
    /\ nb_ubinds <= OCI_BIND_MAX
    /\ nb_rbinds <= OCI_BIND_MAX
    /\ \A i \in Calls(UAnyBind) :
           /\ AddsNew(i) /\ CountFor(i) = OCI_BIND_MAX =>
                  \A c \in {Run(i)} :
                      /\ "MaxBind" \in c.errs
                      /\ ~c.st
                      /\ Returned(c).arr = "null"
                      /\ RegistryKept(c)
           /\ /\ bind_reuse /\ Rebinds(i) /\ i.faults = {}
              /\ nb_ubinds = OCI_BIND_MAX
              /\ i.kind.type = ubinds[SlotOf(i.name)].type
              => \A c \in {Run(i)} :
                     /\ c.st /\ "MaxBind" \notin c.errs
                     /\ Returned(c) = [arr |-> "ubinds", idx |-> SlotOf(i.name)]
                     /\ Len(c.ubinds) = OCI_BIND_MAX

\* C10 happens: with OCI_BIND_MAX input binds registered and reuse enabled,
\* a bind of a new name is refused as one too many and a rebind of a
\* registered name is accepted
BindCountsAtMaxSeen ==
    /\ nb_ubinds = OCI_BIND_MAX
    /\ bind_reuse
    /\ \E i \in Calls(UAnyBind) :
           /\ i.mode = "OCI_BIND_INPUT" /\ AddsNew(i)
           /\ "MaxBind" \in Run(i).errs
    /\ \E i \in Calls(UAnyBind) :
           /\ Rebinds(i) /\ i.faults = {}
           /\ Run(i).st

(***************************************************************************)
(* Properties of the cardinality and of the arrays sized by it             *)
(***************************************************************************)
Max(a, b) == IF a > b THEN a ELSE b

\* input binds of one placeholder with any type, size and element count,
\* with a fault at any array allocation
UAnyTable ==
    [modes |-> {"OCI_BIND_INPUT"}, names |-> {":1"}, kinds |-> Kinds,
     sizes |-> Sizes, nbelems |-> 0..MaxElem, ptrs |-> {"u1"},
     faults |-> {"inds", "obj_inds", "plrcds", "lens"}]

\* the caller asks for a PL/SQL table: an element count on a PL/SQL block
\* or call
AsksTable(i) == i.nbelem > 0 /\ cfg.plsql

\* C11: the indicator array of every registered descriptor has as many
\* elements as the cardinality buffer.count of the descriptor
IndicatorsMatchCount ==
    \A k \in 1..Len(Registered) :
        Len(Registered[k].inds) = Registered[k].count

\* C12: the descriptor of every successful BindCreate has a length array
\* exactly when its type is Raw or Text, and then each of the first
\* buffer.count entries of the array holds bnd->size
LengthsPresentAndFilled ==
    \A i \in Calls(UAnyTable) :
        \A c \in {Run(i)} :
            c.st =>
                /\ c.bnd.lens # <<>>
                      <=> c.bnd.type \in {"OCI_CDT_RAW", "OCI_CDT_TEXT"}
                /\ c.bnd.lens # <<>> =>
                      /\ Len(c.bnd.lens) >= c.bnd.count
                      /\ \A p \in 1..Min(c.bnd.count, Len(c.bnd.lens)) :
                             c.bnd.lens[p] = c.bnd.size

AllReleased(o) ==
    /\ o.gone
    /\ o.bnd.inds = <<>>
    /\ o.bnd.obj_inds = 0
    /\ o.bnd.lens = <<>>
    /\ o.bnd.plrcds = 0
    /\ o.bnd.name = ""

SlotsCoverCount ==
    /\ \A k \in 1..Len(Registered) :
           \A b \in {Registered[k]} :
               /\ Len(b.inds) = Max(b.count, cfg.nb_iters_init)
               /\ b.lens # <<>> => Len(b.lens) = Len(b.inds)
               /\ b.plrcds # 0 => b.plrcds = Len(b.inds)
               /\ \A p \in 1..b.count :
                      /\ ~BindSetNullAtPos(b, p).oob
                      /\ ~BindSetDataSizeAtPos(b, p, 1).oob
    /\ \A i \in Calls(UAnyTable) : ~Run(i).ev.oob

\* C19: a successful BindCreate treats the bind as a PL/SQL table exactly
\* when called with nbelem > 0 on a PL/SQL statement; in every other case
\* the descriptor has the count nb_iters and the array flag bind_array
TableBindExactly ==
    \A i \in Calls(UAnyTable) :
        \A c \in {Run(i)} :
            c.st =>
                /\ c.plsql_table <=> AsksTable(i)
                /\ ~AsksTable(i) =>
                      /\ c.bnd.count = cfg.nb_iters
                      /\ c.bnd.is_array = cfg.bind_array

(***************************************************************************)
(* Properties of the accessors                                             *)
(***************************************************************************)
\* C13: on every registered descriptor, at every position of
\* 1..buffer.count, BindIsNullAtPos returns true after BindSetNullAtPos and
\* false after BindSetNotNullAtPos; at any other position the three calls
\* fail with the out-of-bounds error and leave the descriptor as it is
NullIndicatorRoundTrip ==
    \A k \in 1..Len(Registered) :
        \A b \in {Registered[k]} :
            \A p \in 0..MaxElem + 1 :
                IF p >= 1 /\ p <= b.count
                THEN /\ \A w \in {BindSetNullAtPos(b, p)} :
                            /\ w.err = ""
                            /\ \A r \in BindIsNullAtPos(w.bnd, p) :
                                   r.err = "" /\ r.ret
                     /\ \A w \in {BindSetNotNullAtPos(b, p)} :
                            /\ w.err = ""
                            /\ \A r \in BindIsNullAtPos(w.bnd, p) :
                                   r.err = "" /\ ~r.ret
                ELSE /\ \A w \in {BindSetNullAtPos(b, p),
                                   BindSetNotNullAtPos(b, p)} :
                            w.err = "OutOfBounds" /\ w.bnd = b
                     /\ \A r \in BindIsNullAtPos(b, p) : r.err = "OutOfBounds"

\* C14: on every registered Text descriptor, at every position of
\* 1..buffer.count and for every size s of 1..MaxDataSize,
\* BindGetDataSizeAtPos returns s after BindSetDataSizeAtPos(s), with a wire
\* character of 1 and of 2 bytes
DataSizeRoundTrip ==
    \A k \in 1..Len(Registered) :
        \A b \in {Registered[k]} :
            b.type = "OCI_CDT_TEXT" =>
                \A p \in 1..b.count : \A s \in 1..MaxDataSize :
                    \A w \in {BindSetDataSizeAtPos(b, p, s)} :
                        /\ w.err = "" /\ w.ret
                        /\ \A r \in BindGetDataSizeAtPos(w.bnd, p) :
                               r.err = "" /\ r.ret = s

(***************************************************************************)
(* Properties of the descriptors of failed calls and of the data buffer    *)
(***************************************************************************)
\* input and output binds of two types with a fault at any site they reach
UFailing ==
    [modes |-> {"OCI_BIND_INPUT", "OCI_BIND_OUTPUT"}, names |-> Names,
     kinds |-> {NumInt, Text}, sizes |-> {4}, nbelems |-> {0},
     ptrs |-> {"u1"},
     faults |-> URegistry.faults \cup {"inds", "lens", "binddynamic"}]

Exempted(bnd) ==
    \/ bnd.type \in {"OCI_CDT_RAW", "OCI_CDT_LONG", "OCI_CDT_CURSOR",
                     "OCI_CDT_BOOLEAN"}
    \/ bnd.type = "OCI_CDT_NUMERIC" /\ bnd.code # "SQLT_VNU"
    \/ bnd.type = "OCI_CDT_TEXT" /\ ~cfg.wide

\* buffer.data is a block allocated for the descriptor and not released
OwnsData(bnd) == IsHeap(bnd.data) /\ bnd.data.b \in bnd.live

\* C20: for every registered input descriptor in external allocation mode,
\* buffer.data is bnd->input and alloc is false when the category is
\* exempted, buffer.data is a block owned by the descriptor and alloc is
\* true otherwise; alloc is true exactly when buffer.data is owned
ExternalDataOwnership ==
    \A k \in 1..nb_ubinds :
        \A b \in {ubinds[k]} :
            b.alloc_mode = "OCI_BAM_EXTERNAL" =>
                /\ Exempted(b) => b.data = b.input /\ ~b.alloc
                /\ ~Exempted(b) => OwnsData(b) /\ b.alloc
                /\ b.alloc <=> OwnsData(b)

(***************************************************************************)
(* Properties of BindAllocData                                             *)
(***************************************************************************)
\* BindAllocData on a descriptor of the given kind that has no data yet, as
\* line 133 calls it, with the given allocations failing
AllocDataOn(kind, size, is_array, faults) ==
    BindAllocData([CallStart(0, faults) EXCEPT
                     !.bnd = [ZeroBind EXCEPT
                                !.type       = kind.type,
                                !.code       = kind.code,
                                !.subtype    = kind.subtype,
                                !.size       = size,
                                !.is_array   = is_array,
                                !.count      = 1,
                                !.alloc_mode = "OCI_BAM_INTERNAL"]])

\* the cases with one allocation for input and another for buffer.data: 64-bit
\* integers bound as SQLT_VNU, and Text under wide-char conversion
TwoBuffers(bnd) ==
    \/ bnd.type = "OCI_CDT_NUMERIC" /\ bnd.code = "SQLT_VNU"
          /\ bnd.subtype # "OCI_NUM_NUMBER"
    \/ bnd.type = "OCI_CDT_TEXT" /\ cfg.wide

\* C21: after a BindAllocData in which every allocation succeeds, alloc is
\* true exactly for the descriptors with two buffers, scalar or array
AllocFlagMarksTwoBuffers ==
    \A kind \in Kinds : \A is_array \in BOOLEAN :
        \A c \in {AllocDataOn(kind, 4, is_array, {})} :
            c.bnd.alloc <=> TwoBuffers(c.bnd)

\* C22: BindAllocData returns false when an allocation it attempts fails
\* and when the type has no materialization, and when it returns true both
\* input and buffer.data reference storage
AllocDataReportsFailure ==
    \A kind \in Kinds : \A is_array \in BOOLEAN :
        \A faults \in SUBSET {"value", "value2"} :
            \A c \in {AllocDataOn(kind, 4, is_array, faults)} :
                /\ c.errs # {} => ~BindAllocDataResult(c.bnd)
                /\ kind.type \notin MaterializedTypes
                      => ~BindAllocDataResult(c.bnd)
                /\ BindAllocDataResult(c.bnd)
                      => c.bnd.input # NULL /\ c.bnd.data # NULL

(***************************************************************************)
(* Properties of the wire bind call and of the name map                    *)
(***************************************************************************)
\* input and output binds of any name, of an integer, a text, a date or an
\* OCI_Long, no step failing
UExecMode ==
    [modes |-> {"OCI_BIND_INPUT", "OCI_BIND_OUTPUT"}, names |-> Names,
     kinds |-> {NumInt, Text, Date, Long}, sizes |-> {4}, nbelems |-> {0},
     ptrs |-> {"u1"}, faults |-> {}]

\* C23: the wire bind call of a successful BindCreate uses the execution
\* mode data-at-execute exactly when the type is OCI_Long or the bind is an
\* output bind, and the default mode otherwise
ExecModeByTypeAndMode ==
    \A i \in Calls(UExecMode) :
        \A c \in {Run(i)} :
            c.st =>
                /\ c.bnd.handle.bound
                /\ c.bnd.handle.exec_mode =
                      IF i.kind.type = "OCI_CDT_LONG" \/ i.mode = "OCI_BIND_OUTPUT"
                      THEN "OCI_DATA_AT_EXEC" ELSE "OCI_DEFAULT"

\* C23 happens: an input bind is registered as bound in the default mode,
\* an output bind as bound with data at execute, and an input bind of an
\* OCI_Long succeeds with data at execute
ExecModeByTypeAndModeSeen ==
    /\ \E k \in 1..nb_ubinds : ubinds[k].handle.exec_mode = "OCI_DEFAULT"
    /\ \E k \in 1..nb_rbinds : rbinds[k].handle.exec_mode = "OCI_DATA_AT_EXEC"
    /\ \E i \in Calls(UExecMode) :
           /\ i.kind = Long /\ i.mode = "OCI_BIND_INPUT"
           /\ Run(i).st
           /\ Run(i).bnd.handle.exec_mode = "OCI_DATA_AT_EXEC"

\* the values the map holds under a name
Held(m, name) == {m.entries[name][k] : k \in 1..Len(m.entries[name])}

\* the entries of the map
Entries(m) == UNION {{<<n, k>> : k \in 1..Len(m.entries[n])} : n \in Names}

\* C24: the map holds +k under the name of the input descriptor at position
\* k of ubinds and -k under the name of the output descriptor at position k
\* of rbinds, and nothing else; a successful rebind of a registered name
\* leaves the map as it is
MapHoldsSignedPositions ==
    /\ \A k \in 1..nb_ubinds : k \in Held(map, ubinds[k].name)
    /\ \A k \in 1..nb_rbinds : -k \in Held(map, rbinds[k].name)
    /\ Cardinality(Entries(map)) = nb_ubinds + nb_rbinds
    /\ \A i \in Calls(UAnyBind) :
           Rebinds(i) =>
               \A c \in {Run(i)} : c.st /\ c.reused => c.map = map

\* C24 happens: input and output binds are registered and a rebind of a
\* registered name succeeds
MapHoldsSignedPositionsSeen ==
    /\ nb_ubinds > 0 /\ nb_rbinds = OCI_BIND_MAX
    /\ \E i \in Calls(UAnyBind) :
           /\ Rebinds(i)
           /\ Run(i).st /\ Run(i).reused

\* C25: in position-based bind mode a BindCreate of a name whose position
\* is outside of 1..OCI_BIND_MAX fails with the out-of-bounds error, and a
\* successful one issues the bind-by-position call with the position parsed
\* from the name, on first binds and on rebinds
BindsAtParsedPosition ==
    cfg.bind_mode = "OCI_BIND_BY_POS" =>
        \A i \in Calls(UAnyBind) :
            \A c \in {Run(i)} :
                IF Position(i.name) <= 0 \/ Position(i.name) > OCI_BIND_MAX
                THEN ~c.st /\ "OutOfBounds" \in c.errs
                ELSE c.st =>
                         /\ c.bnd.handle.by = "pos"
                         /\ c.bnd.handle.index = Position(i.name)

\* C26: a call of BindCreate that fails leaves nb_ubinds, nb_rbinds, the
\* descriptors referenced from ubinds and rbinds and the entries of the map
\* as they were
FailedCallKeepsRegistry ==
    \A i \in Calls(UFailing) :
        \A c \in {Run(i)} :
            ~c.st =>
                /\ c.ubinds = ubinds
                /\ c.rbinds = rbinds
                /\ Len(PutBack(c)) = nb_ubinds
                /\ c.map.entries = map.entries
                /\ c.where = Nowhere

\* C26 happens: with input and output binds registered, a call fails after
\* it allocated its descriptor and one fails on a registered descriptor
FailedCallKeepsRegistrySeen ==
    /\ nb_ubinds > 0 /\ nb_rbinds > 0
    /\ \E i \in Calls(UFailing) : ~Run(i).st /\ Run(i).made
    /\ \E i \in Calls(UFailing) : ~Run(i).st /\ Run(i).slot > 0

(***************************************************************************)
(* Properties of the charset form and of the direction                     *)
(***************************************************************************)
\* C27: BindSetCharsetForm refuses every value but Default and National and
\* then changes nothing; with an accepted value it sets the csfrm field of
\* a Text or OCI_Long descriptor and, when the attribute call succeeds, the
\* charset form of its wire handle; a descriptor of another type is left
\* as it is
CharsetFormOnlyForText ==
    \A k \in 1..nb_ubinds :
        \A b \in {ubinds[k]} :
            \A attr_ok \in BOOLEAN :
                /\ \A w \in {BindSetCharsetForm(b, "OCI_CSF_NONE", attr_ok)} :
                       w.err # "" /\ ~w.ret /\ w.bnd = b
                /\ \A v \in {"OCI_CSF_DEFAULT", "OCI_CSF_NATIONAL"} :
                       \A w \in {BindSetCharsetForm(b, v, attr_ok)} :
                           IF b.type \in {"OCI_CDT_TEXT", "OCI_CDT_LONG"}
                           THEN /\ w.bnd.csfrm = WireCharsetForm(v)
                                /\ attr_ok =>
                                      /\ w.ret
                                      /\ w.bnd.handle.csfrm = WireCharsetForm(v)
                                /\ [w.bnd EXCEPT !.csfrm = b.csfrm,
                                                 !.handle.csfrm = b.handle.csfrm]
                                     = b
                           ELSE w.ret /\ w.bnd = b

\* C27 happens: a Text descriptor carries the national charset form on its
\* field and on its wire handle
CharsetFormOnlyForTextSeen ==
    \E k \in 1..nb_ubinds :
        /\ ubinds[k].type = "OCI_CDT_TEXT"
        /\ ubinds[k].csfrm = "SQLCS_NCHAR"
        /\ ubinds[k].handle.csfrm = "SQLCS_NCHAR"

\* C28: BindGetDirection returns what an accepted BindSetDirection set; a
\* BindSetDirection of another value fails and changes nothing; a new
\* descriptor has the direction InOut; and a BindCreate that rebinds a
\* registered name leaves the direction of its descriptor as it is
DirectionKept ==
    /\ \A k \in 1..nb_ubinds :
           \A b \in {ubinds[k]} :
               /\ \A v \in {"OCI_BDM_IN", "OCI_BDM_OUT", "OCI_BDM_IN_OUT"} :
                      \A w \in {BindSetDirection(b, v)} :
                          w.ret /\ BindGetDirection(w.bnd) = v
               /\ \A w \in {BindSetDirection(b, "OCI_UNKNOWN")} :
                      w.err # "" /\ ~w.ret /\ w.bnd = b
    /\ \A i \in Calls(UAttributes) :
           \A c \in {Run(i)} :
               /\ c.made /\ c.st => BindGetDirection(c.bnd) = "OCI_BDM_IN_OUT"
               /\ c.slot > 0 =>
                      BindGetDirection(PutBack(c)[c.slot])
                          = BindGetDirection(ubinds[c.slot])

====
